---- MODULE Spec2Model ----
(***************************************************************************)
(* Model of sci_viz_tool.py (AnnotatorApp): the point registry, the        *)
(* working image and its coordinate frame, the click / ROI handlers and    *)
(* the metrics engine compute_metrics.                                      *)
(*                                                                         *)
(* Representation.  An Optional value is a tuple: None is <<>>.  A Python  *)
(* float is an exact fraction <<n, d>> in lowest terms with d > 0 (the     *)
(* values the model draws never sit on a rounding boundary of int()).  An  *)
(* image is its size <<w, h>>: the handlers only read Image.size.  The     *)
(* canvas item ids (line_id, dot_id, label_id, roi_rect_canvas_id) and the *)
(* status line are graphics only and are left out; overlay stands for the  *)
(* content of the overlay panel held by overlay_items.  last is a history  *)
(* variable: the handler that ran last and how it ended ("done", an early  *)
(* "return", a rejected ROI, or the exception that escaped it).            *)
(***************************************************************************)
EXTENDS Integers, Sequences, FiniteSets, TLC

\* ---- bounds of the model ------------------------------------------------
\* largest image width and height (pixels) a capture or an opened file has
MaxW == 2
MaxH == 2
\* largest y (image row) of a mark in the specification of the metrics alone
MaxY == 3

\* ---- program constants --------------------------------------------------
MinCanvas == 200
MinRoi == 4
DefaultAxisValue == 100

None == <<>>
Names == {"Baseline", "Control", "A", "B", "Axis"}
NoMode == "None"
RoiMode == "ROI"

\* ---- float arithmetic (exact fractions) ---------------------------------
Abs(n) == IF n < 0 THEN -n ELSE n

RECURSIVE GCD(_, _)
GCD(a, b) == IF b = 0 THEN a ELSE GCD(b, a % b)

Norm(n, d) ==
    LET g == GCD(Abs(n), Abs(d))
        s == IF d < 0 THEN -1 ELSE 1
    IN  <<(s * n) \div g, (s * d) \div g>>

Float(i) == <<i, 1>>
FSub(a, b) == Norm(a[1] * b[2] - b[1] * a[2], a[2] * b[2])
FMul(a, b) == Norm(a[1] * b[1], a[2] * b[2])
FDiv(a, b) == Norm(a[1] * b[2], a[2] * b[1])
FAbs(a) == <<Abs(a[1]), a[2]>>
FLess(a, b) == a[1] * b[2] < b[1] * a[2]
FIsZero(a) == a[1] = 0
FMax(S) == CHOOSE m \in S : \A x \in S : ~FLess(m, x)
FMin(a, b) == IF FLess(b, a) THEN b ELSE a
\* int(): truncation toward zero
FInt(a) == IF a[1] >= 0 THEN a[1] \div a[2] ELSE -((-a[1]) \div a[2])
IMax(a, b) == IF a >= b THEN a ELSE b
IMin(a, b) == IF a <= b THEN a ELSE b

\* the exception a float division by zero raises
ZeroDivisionError == [exception |-> "ZeroDivisionError"]
\* marker of a sub-expression that raised (no float has denominator 0)
Raise == <<0, 0>>

\* ---- compute_metrics ----------------------------------------------------
\* y coordinate of an optional point
YOf(xy) == IF xy = None THEN None ELSE <<xy[2]>>

height(base_y, pt) ==
    IF pt = None THEN None
    ELSE IF base_y = None THEN None
    ELSE Float(base_y[1] - pt[2])

\* variant of AxisSpan that measures the span as a distance (sign dropped)
AxisSpan_unsigned(base_y, axis_y) ==
    IF base_y # None /\ axis_y # None
    THEN LET span == FAbs(Float(base_y[1] - axis_y[1]))
         IN  IF ~FIsZero(span) THEN span ELSE None
    ELSE None

\* Axis span in pixels (Baseline -> Axis); a span of exactly 0 is None
AxisSpan(base_y, axis_y) ==
    IF base_y # None /\ axis_y # None
    THEN LET span == Float(base_y[1] - axis_y[1])
         IN  IF ~FIsZero(span) THEN span ELSE None
    ELSE None

\* the heights that exist among (hA, hB, hC)
Candidates(hA, hB, hC) == {v \in {hA, hB, hC} : v # None}

\* the scale after the auto fallback
AutoScale(span, hA, hB, hC) ==
    IF span = None
    THEN IF Candidates(hA, hB, hC) # {}
         THEN FMax({FAbs(v) : v \in Candidates(hA, hB, hC)})
         ELSE Float(1)
    ELSE span

\* variant of pct that multiplies by the denominator instead of dividing
pct_times(n, d) ==
    IF n = None \/ d = None THEN None
    ELSE IF FIsZero(d) THEN None
    ELSE FMul(FMul(Float(100), n), d)

pct(n, d) ==
    IF n = None \/ d = None THEN None
    ELSE IF FIsZero(d) THEN None
    ELSE FDiv(FMul(Float(100), n), d)

\* numerator of the delta metrics: None if either height is missing
Diff(hX, hY) == IF hX = None \/ hY = None THEN None ELSE FSub(hX, hY)

base_norm(v_height, hAxis, av) ==
    IF v_height = None \/ hAxis = None THEN None
    ELSE IF FIsZero(hAxis) THEN Raise
    ELSE FMul(FDiv(v_height, hAxis), av)

\* the scale divisor compute_metrics uses for the calibrated values
hAxisOf(pts) ==
    LET base_y == YOf(pts["Baseline"])
    IN  AutoScale(AxisSpan(base_y, YOf(pts["Axis"])),
                  height(base_y, pts["A"]),
                  height(base_y, pts["B"]),
                  height(base_y, pts["Control"]))

\* a calibrated value divides by a zero scale: the float division raises
Raises(pts, av) ==
    LET base_y == YOf(pts["Baseline"])
        hAxis == hAxisOf(pts)
    IN  \E P \in {"Control", "A", "B"} :
            base_norm(height(base_y, pts[P]), hAxis, av) = Raise

compute_metrics(pts, av) ==
    LET base_y == YOf(pts["Baseline"])
        axis_y == YOf(pts["Axis"])
        hA == height(base_y, pts["A"])
        hB == height(base_y, pts["B"])
        hC == height(base_y, pts["Control"])
        hAxis == hAxisOf(pts)
        auto_used == (AxisSpan(base_y, axis_y) = None)
    IN  IF Raises(pts, av)
        THEN ZeroDivisionError
        ELSE [ height_Baseline_y |-> IF base_y # None THEN Float(base_y[1]) ELSE None,
               height_Control_px |-> hC,
               height_A_px |-> hA,
               height_B_px |-> hB,
               height_Axis_px |-> hAxis,
               axis_auto_used |-> auto_used,
               A_as_pct_of_B |-> pct(hA, hB),
               B_as_pct_of_A |-> pct(hB, hA),
               delta_A_vs_B_pct |-> pct(Diff(hA, hB), hB),
               delta_B_vs_A_pct |-> pct(Diff(hB, hA), hA),
               A_as_pct_of_Control |-> pct(hA, hC),
               Control_as_pct_of_A |-> pct(hC, hA),
               delta_A_vs_Control_pct |-> pct(Diff(hA, hC), hC),
               delta_Control_vs_A_pct |-> pct(Diff(hC, hA), hA),
               B_as_pct_of_Control |-> pct(hB, hC),
               Control_as_pct_of_B |-> pct(hC, hB),
               delta_B_vs_Control_pct |-> pct(Diff(hB, hC), hC),
               delta_Control_vs_B_pct |-> pct(Diff(hC, hB), hB),
               BaseNorm_Control |-> base_norm(hC, hAxis, av),
               BaseNorm_A |-> base_norm(hA, hAxis, av),
               BaseNorm_B |-> base_norm(hB, hAxis, av),
               Axis_Value |-> av ]

\* whether a call of compute_metrics returned (a dict) or raised
Returned(r) == "exception" \notin DOMAIN r

\* ---- inputs the environment supplies ------------------------------------
\* sizes of the images a capture or an opened file can have
ImageSizes == {<<1, 1>>, <<MaxW, MaxH>>}
\* canvas sizes winfo_width / winfo_height report
CanvasSizes == {<<200, 200>>}
\* values the axis calibration prompt returns
AxisValues == {Float(DefaultAxisValue), <<-5, 2>>}
\* canvas positions of the mouse events (clicks land in the first column)
ClickXs == {0}
ClickYs == {70 * k : k \in 0..MaxH}
PressXYs == {<<70, 70>>}
ReleaseXs == {70 * k : k \in 0..MaxW}
ReleaseYs == {70 * k : k \in 0..MaxH}

\* ---- state ----------------------------------------------------------------
VARIABLES
    points,         \* name -> xy (image space) or None
    axis_value,     \* numeric value of the Axis tick
    current_mode,   \* NoMode, a point name, or RoiMode
    image,          \* size of the working image, or None
    full_capture,   \* size of the last full capture / opened image, or None
    display_scale,  \* <<sx, sy>>: canvas pixels per image pixel
    roi_start,      \* canvas position of the ROI press, or None
    overlay,        \* what the overlay panel was drawn from, or NoOverlay
    last            \* the handler that ran last and how it ended

vars == <<points, axis_value, current_mode, image, full_capture,
          display_scale, roi_start, overlay, last>>

NoOverlay == [panel |-> "empty"]
AllNone == [n \in Names |-> None]
Ended(op, result) == [op |-> op, result |-> result]

Init ==
    /\ points = AllNone
    /\ axis_value = Float(DefaultAxisValue)
    /\ current_mode = NoMode
    /\ image = None
    /\ full_capture = None
    /\ display_scale = <<Float(1), Float(1)>>
    /\ roi_start = None
    /\ overlay = NoOverlay
    /\ last = Ended("__init__", "done")

\* ---- image / canvas -------------------------------------------------------
\* reset_canvas_image: the scale that fits img into canvas c
DisplayScale(img, c) ==
    LET c_w == IMax(c[1], MinCanvas)
        c_h == IMax(c[2], MinCanvas)
        scale == FMin(Norm(c_w, img[1]), Norm(c_h, img[2]))
        disp_w == IMax(1, FInt(FMul(Float(img[1]), scale)))
        disp_h == IMax(1, FInt(FMul(Float(img[2]), scale)))
    IN  <<Norm(disp_w, img[1]), Norm(disp_h, img[2])>>

\* a drawn panel is held as the arguments of the compute_metrics call whose
\* result it shows
Drawn(pts, av) == [pts |-> pts, av |-> av]
\* the metrics a drawn panel shows
Shown(panel) == compute_metrics(panel.pts, panel.av)

\* update_metrics_overlay: the panel it leaves (cleared first, drawn only if
\* compute_metrics returned)
update_metrics_overlay(pts, av) ==
    IF Raises(pts, av) THEN NoOverlay ELSE Drawn(pts, av)

\* how a handler that ends in update_metrics_overlay ends
ResultOf(pts, av) == IF Raises(pts, av) THEN "ZeroDivisionError" ELSE "done"

canvas_to_image_xy(x, y, scale, img) ==
    LET ix == IF ~FIsZero(scale[1]) THEN FInt(FDiv(Float(x), scale[1])) ELSE 0
        iy == IF ~FIsZero(scale[2]) THEN FInt(FDiv(Float(y), scale[2])) ELSE 0
    IN  IF img # None
        THEN <<IMax(0, IMin(img[1] - 1, ix)), IMax(0, IMin(img[2] - 1, iy))>>
        ELSE <<ix, iy>>

\* variant of clear_marks that forgets the markers but keeps the Baseline
clear_marks_keeps_baseline ==
    /\ points' = [n \in Names |-> IF n = "Baseline" THEN points[n] ELSE None]
    /\ overlay' = NoOverlay
    /\ last' = Ended("clear_marks", "done")
    /\ UNCHANGED <<axis_value, current_mode, image, full_capture, display_scale, roi_start>>

\* clear_marks: every xy forgotten, overlay erased
clear_marks ==
    /\ points' = AllNone
    /\ overlay' = NoOverlay
    /\ last' = Ended("clear_marks", "done")
    /\ UNCHANGED <<axis_value, current_mode, image, full_capture, display_scale, roi_start>>

\* set_image: reset_canvas_image draws the overlay from the marks still
\* present; clear_marks runs only if that did not raise
set_image(img, c, op) ==
    /\ image' = img
    /\ display_scale' = DisplayScale(img, c)
    /\ overlay' = NoOverlay
    /\ points' = IF Raises(points, axis_value) THEN points ELSE AllNone
    /\ last' = Ended(op, ResultOf(points, axis_value))
    /\ UNCHANGED <<axis_value, current_mode, roi_start>>

capture_all_monitors ==
    \E img \in ImageSizes, c \in CanvasSizes :
        /\ full_capture' = img
        /\ set_image(img, c, "capture_all_monitors")

open_image ==
    \E img \in ImageSizes, c \in CanvasSizes :
        /\ full_capture' = img
        /\ set_image(img, c, "open_image")

reset_to_full_capture ==
    \E c \in CanvasSizes :
        /\ full_capture # None
        /\ set_image(full_capture, c, "reset_to_full_capture")
        /\ UNCHANGED full_capture

on_resize ==
    \E c \in CanvasSizes :
        /\ image # None
        /\ display_scale' = DisplayScale(image, c)
        /\ overlay' = update_metrics_overlay(points, axis_value)
        /\ last' = Ended("on_resize", ResultOf(points, axis_value))
        /\ UNCHANGED <<points, axis_value, current_mode, image, full_capture, roi_start>>

\* ---- ROI ---------------------------------------------------------------------
\* A handler whose first test returns early (no image, wrong mode) is an
\* action that is not enabled; on_canvas_click keeps its early return as an
\* outcome.  <Button-1> and <ButtonPress-1> are one event: a press runs
\* on_canvas_click and then on_roi_press, and at most one of the two passes
\* its test, so they are separate actions.
start_roi_mode ==
    /\ image # None
    /\ current_mode' = RoiMode
    /\ roi_start' = None
    /\ last' = Ended("start_roi_mode", "done")
    /\ UNCHANGED <<points, axis_value, image, full_capture, display_scale, overlay>>

on_roi_press ==
    \E xy \in PressXYs :
        /\ current_mode = RoiMode /\ image # None
        /\ roi_start' = xy
        /\ last' = Ended("on_roi_press", "done")
        /\ UNCHANGED <<points, axis_value, current_mode, image, full_capture,
                       display_scale, overlay>>

\* the crop box (ix0, iy0, ix1, iy1) of a drag from roi_start to (ex, ey)
RoiBox(ex, ey) ==
    LET x0 == IMin(roi_start[1], ex)
        x1 == IMax(roi_start[1], ex)
        y0 == IMin(roi_start[2], ey)
        y1 == IMax(roi_start[2], ey)
        p0 == canvas_to_image_xy(x0, y0, display_scale, image)
        p1 == canvas_to_image_xy(x1, y1, display_scale, image)
    IN  << IMax(0, IMin(image[1] - 1, p0[1])), IMax(0, IMin(image[2] - 1, p0[2])),
           IMax(0, IMin(image[1], p1[1])), IMax(0, IMin(image[2], p1[2])) >>

\* the drag is smaller than the minimum size in either dimension
RoiTooSmall(ex, ey) ==
    \/ Abs(ex - roi_start[1]) < MinRoi
    \/ Abs(ey - roi_start[2]) < MinRoi

\* the crop box is empty after mapping to image space
RoiInvalid(box) == box[3] <= box[1] \/ box[4] <= box[2]

\* size of the image Image.crop returns for a box
CropSize(box) == <<box[3] - box[1], box[4] - box[2]>>

\* variant of on_roi_release that forgets the marks before it tests the drag
on_roi_release_clears_first ==
    \E ex \in ReleaseXs, ey \in ReleaseYs, c \in CanvasSizes :
        /\ current_mode = RoiMode /\ image # None /\ roi_start # None
        /\ current_mode' = NoMode
        /\ roi_start' = None
        /\ points' = AllNone
        /\ IF RoiTooSmall(ex, ey)
           THEN /\ last' = Ended("on_roi_release", "too small")
                /\ UNCHANGED <<image, display_scale, overlay>>
           ELSE IF RoiInvalid(RoiBox(ex, ey))
           THEN /\ last' = Ended("on_roi_release", "invalid")
                /\ UNCHANGED <<image, display_scale, overlay>>
           ELSE /\ image' = CropSize(RoiBox(ex, ey))
                /\ display_scale' = DisplayScale(image', c)
                /\ overlay' = update_metrics_overlay(AllNone, axis_value)
                /\ last' = Ended("on_roi_release", ResultOf(AllNone, axis_value))
        /\ UNCHANGED <<axis_value, full_capture>>

on_roi_release ==
    \E ex \in ReleaseXs, ey \in ReleaseYs, c \in CanvasSizes :
        /\ current_mode = RoiMode /\ image # None /\ roi_start # None
        /\ current_mode' = NoMode
        /\ roi_start' = None
        /\ IF RoiTooSmall(ex, ey)
           THEN /\ last' = Ended("on_roi_release", "too small")
                /\ UNCHANGED <<points, image, display_scale, overlay>>
           ELSE IF RoiInvalid(RoiBox(ex, ey))
           THEN /\ last' = Ended("on_roi_release", "invalid")
                /\ UNCHANGED <<points, image, display_scale, overlay>>
           ELSE /\ image' = CropSize(RoiBox(ex, ey))
                /\ points' = AllNone
                /\ display_scale' = DisplayScale(image', c)
                /\ overlay' = update_metrics_overlay(AllNone, axis_value)
                /\ last' = Ended("on_roi_release", ResultOf(AllNone, axis_value))
        /\ UNCHANGED <<axis_value, full_capture>>

\* ---- points -------------------------------------------------------------------
set_mode ==
    \E mode \in (Names \ {"Axis"}) \cup {NoMode} :
        /\ current_mode' = mode
        /\ last' = Ended("set_mode", "done")
        /\ UNCHANGED <<points, axis_value, image, full_capture, display_scale,
                       roi_start, overlay>>

set_axis_tick ==
    \E val \in AxisValues :
        /\ axis_value' = val
        /\ current_mode' = "Axis"
        /\ last' = Ended("set_axis_tick", "done")
        /\ UNCHANGED <<points, image, full_capture, display_scale, roi_start, overlay>>

\* variant of ClickIgnored that only tests for "no mode"
ClickIgnored_only_none == image = None \/ current_mode = NoMode

\* the click is ignored: no image, or the mode names no point
ClickIgnored == image = None \/ current_mode \notin Names

\* variant of on_canvas_click whose placement also forgets the Axis tick
on_canvas_click_forgets_axis ==
    \E x \in ClickXs, y \in ClickYs :
        IF ClickIgnored
        THEN /\ last' = Ended("on_canvas_click", "return")
             /\ UNCHANGED <<points, axis_value, current_mode, image, full_capture,
                            display_scale, roi_start, overlay>>
        ELSE /\ points' = [points EXCEPT
                              ![current_mode] = canvas_to_image_xy(x, y, display_scale, image),
                              !["Axis"] = IF current_mode = "Axis" THEN @ ELSE None]
             /\ current_mode' = NoMode
             /\ overlay' = update_metrics_overlay(points', axis_value)
             /\ last' = Ended("on_canvas_click", ResultOf(points', axis_value))
             /\ UNCHANGED <<axis_value, image, full_capture, display_scale, roi_start>>

\* variant of on_canvas_click whose placement stays in the point's mode
on_canvas_click_keeps_mode ==
    \E x \in ClickXs, y \in ClickYs :
        IF ClickIgnored
        THEN /\ last' = Ended("on_canvas_click", "return")
             /\ UNCHANGED <<points, axis_value, current_mode, image, full_capture,
                            display_scale, roi_start, overlay>>
        ELSE /\ points' = [points EXCEPT
                              ![current_mode] = canvas_to_image_xy(x, y, display_scale, image)]
             /\ overlay' = update_metrics_overlay(points', axis_value)
             /\ last' = Ended("on_canvas_click", ResultOf(points', axis_value))
             /\ UNCHANGED <<axis_value, current_mode, image, full_capture,
                            display_scale, roi_start>>

on_canvas_click ==
    \E x \in ClickXs, y \in ClickYs :
        IF ClickIgnored
        THEN /\ last' = Ended("on_canvas_click", "return")
             /\ UNCHANGED <<points, axis_value, current_mode, image, full_capture,
                            display_scale, roi_start, overlay>>
        ELSE /\ points' = [points EXCEPT
                              ![current_mode] = canvas_to_image_xy(x, y, display_scale, image)]
             /\ current_mode' = NoMode
             /\ overlay' = update_metrics_overlay(points', axis_value)
             /\ last' = Ended("on_canvas_click", ResultOf(points', axis_value))
             /\ UNCHANGED <<axis_value, image, full_capture, display_scale, roi_start>>

\* ---- specification --------------------------------------------------------------
Next ==
    \/ capture_all_monitors
    \/ open_image
    \/ reset_to_full_capture
    \/ on_resize
    \/ start_roi_mode
    \/ on_roi_press
    \/ on_roi_release
    \/ set_mode
    \/ set_axis_tick
    \/ on_canvas_click
    \/ clear_marks

Spec == Init /\ [][Next]_vars

\* ---- compute_metrics alone ---------------------------------------------------
\* The registries compute_metrics can be called on: every point unplaced or
\* on some row of an image MaxY + 1 pixels high.
Registries == [Names -> {None} \cup {<<0, y>> : y \in 0..MaxY}]

\* An annotated image whose window has just been resized: the overlay has
\* been drawn from the registry by update_metrics_overlay, if compute_metrics
\* returned.
InitMetrics ==
    /\ points \in Registries
    /\ axis_value \in AxisValues
    /\ current_mode = NoMode
    /\ image = <<1, MaxY + 1>>
    /\ full_capture = image
    /\ \E c \in CanvasSizes : display_scale = DisplayScale(image, c)
    /\ roi_start = None
    /\ overlay = update_metrics_overlay(points, axis_value)
    /\ last = Ended("on_resize", ResultOf(points, axis_value))

\* the calibration value changes, and a resize calls compute_metrics again
NextMetrics ==
    \/ set_axis_tick
    \/ on_resize

SpecMetrics == InitMetrics /\ [][NextMetrics]_vars

\* ---- properties ----------------------------------------------------------------
\* the metrics of the current registry and calibration value
M == compute_metrics(points, axis_value)
Placed(n) == points[n] # None
Bars == {"Control", "A", "B"}
\* the markers whose height exists: Baseline and the marker are both placed
DefinedBars == {P \in Bars : Placed("Baseline") /\ Placed(P)}
\* Baseline.y - P.y, in pixels
H(P) == points["Baseline"][2] - points[P][2]
MaxOf(S) == CHOOSE m \in S : \A x \in S : m >= x

HeightOf(m, P) ==
    CASE P = "Control" -> m.height_Control_px
      [] P = "A" -> m.height_A_px
      [] P = "B" -> m.height_B_px

BaseNormOf(m, P) ==
    CASE P = "Control" -> m.BaseNorm_Control
      [] P = "A" -> m.BaseNorm_A
      [] P = "B" -> m.BaseNorm_B

AsPctOf(m, X, Y) ==
    CASE X = "A" /\ Y = "B" -> m.A_as_pct_of_B
      [] X = "B" /\ Y = "A" -> m.B_as_pct_of_A
      [] X = "A" /\ Y = "Control" -> m.A_as_pct_of_Control
      [] X = "Control" /\ Y = "A" -> m.Control_as_pct_of_A
      [] X = "B" /\ Y = "Control" -> m.B_as_pct_of_Control
      [] X = "Control" /\ Y = "B" -> m.Control_as_pct_of_B

DeltaOf(m, X, Y) ==
    CASE X = "A" /\ Y = "B" -> m.delta_A_vs_B_pct
      [] X = "B" /\ Y = "A" -> m.delta_B_vs_A_pct
      [] X = "A" /\ Y = "Control" -> m.delta_A_vs_Control_pct
      [] X = "Control" /\ Y = "A" -> m.delta_Control_vs_A_pct
      [] X = "B" /\ Y = "Control" -> m.delta_B_vs_Control_pct
      [] X = "Control" /\ Y = "B" -> m.delta_Control_vs_B_pct

\* C1: for every registry content and calibration value compute_metrics
\* returns a result; a division by zero never raises.
C1_NeverRaises == Returned(compute_metrics(points, axis_value))

\* C2: the scale divisor used for the calibrated values is never zero, and
\* is defined whenever at least one height of Control, A, B is defined.
C2_DivisorNonZero ==
    /\ hAxisOf(points) # None => ~FIsZero(hAxisOf(points))
    /\ DefinedBars # {} => hAxisOf(points) # None

\* C3: compute_metrics returns a defined height for P in {Control, A, B}
\* iff Baseline and P are both placed, and it equals Baseline.y - P.y.
C3_Heights ==
    /\ Returned(M)
    /\ \A P \in Bars :
        /\ (HeightOf(M, P) # None) <=> (P \in DefinedBars)
        /\ P \in DefinedBars => HeightOf(M, P) = <<H(P), 1>>

\* the Axis tick gives no span: it is unplaced, or level with Baseline
AxisUnusable ==
    \/ ~Placed("Axis")
    \/ Placed("Baseline") /\ points["Axis"][2] = points["Baseline"][2]

\* C4: if Axis is unplaced or Axis.y = Baseline.y, compute_metrics reports
\* auto = true and the divisor is the largest absolute defined height among
\* Control, A, B, or 1.0 if none is defined.
C4_AutoDivisor ==
    AxisUnusable =>
        /\ Returned(M)
        /\ M.axis_auto_used = TRUE
        /\ M.height_Axis_px =
              IF DefinedBars = {} THEN <<1, 1>>
              ELSE <<MaxOf({Abs(H(P)) : P \in DefinedBars}), 1>>

\* the Axis tick gives a span: placed, with Baseline, at a different y
AxisUsable ==
    /\ Placed("Axis") /\ Placed("Baseline")
    /\ points["Axis"][2] # points["Baseline"][2]

\* C5: if Axis is placed with Axis.y # Baseline.y, compute_metrics reports
\* auto = false and the divisor equals Baseline.y - Axis.y exactly (negative
\* when the tick lies below Baseline), whichever of Control, A, B are placed.
C5_AxisDivisor ==
    AxisUsable =>
        /\ Returned(M)
        /\ M.axis_auto_used = FALSE
        /\ M.height_Axis_px = <<H("Axis"), 1>>

\* C5 witness: the overlay shows metrics computed with a tick below Baseline
\* while only some of the markers are placed.
C5_Witness ==
    /\ AxisUsable /\ H("Axis") < 0
    /\ Placed("A") /\ ~Placed("B")
    /\ overlay # NoOverlay /\ Shown(overlay) = M

\* C6: for each ordered pair (X, Y) of distinct markers, X_as_pct_of_Y and
\* delta_X_vs_Y_pct are defined iff both heights are defined and height(Y) # 0,
\* and then equal 100*hX/hY and 100*(hX-hY)/hY; otherwise they are undefined,
\* never an error.
C6_Pairwise ==
    /\ Returned(M)
    /\ \A X \in Bars : \A Y \in Bars \ {X} :
        LET ok == X \in DefinedBars /\ Y \in DefinedBars /\ H(Y) # 0
        IN  /\ (AsPctOf(M, X, Y) # None) <=> ok
            /\ (DeltaOf(M, X, Y) # None) <=> ok
            /\ ok => /\ AsPctOf(M, X, Y)[1] * H(Y) = 100 * H(X) * AsPctOf(M, X, Y)[2]
                     /\ DeltaOf(M, X, Y)[1] * H(Y)
                            = 100 * (H(X) - H(Y)) * DeltaOf(M, X, Y)[2]

\* C7: after clear_marks, compute_metrics returns a result in which every
\* height, the Axis span and every percentage is undefined, and auto is true
\* with divisor 1.0.
C7_ClearThenCompute ==
    last.op = "clear_marks" =>
        /\ Returned(M)
        /\ M.height_Baseline_y = None
        /\ \A P \in Bars : HeightOf(M, P) = None /\ BaseNormOf(M, P) = None
        /\ \A X \in Bars : \A Y \in Bars \ {X} :
              AsPctOf(M, X, Y) = None /\ DeltaOf(M, X, Y) = None
        /\ AxisSpan(YOf(points["Baseline"]), YOf(points["Axis"])) = None
        /\ M.axis_auto_used = TRUE
        /\ M.height_Axis_px = <<1, 1>>

\* C7 witness: Clear Marks has just run on a loaded image.
C7_Witness ==
    /\ last = Ended("clear_marks", "done")
    /\ image # None
    /\ points = AllNone

\* the handler that ran last changed the coordinate frame
FrameChanged ==
    \/ last.op \in {"capture_all_monitors", "open_image", "reset_to_full_capture"}
    \/ last.op = "on_roi_release" /\ last.result \notin {"too small", "invalid"}

\* C8: every operation that changes the coordinate frame leaves all five
\* points undefined when it completes.
C8_FrameChangeClears == FrameChanged => points = AllNone

\* C9: the calibrated value of each of Control, A, B is defined iff its
\* height is defined, and then equals height / divisor * axis_value.
C9_BaseNorm ==
    /\ Returned(M)
    /\ \A P \in Bars :
        /\ (BaseNormOf(M, P) # None) <=> (P \in DefinedBars)
        /\ P \in DefinedBars =>
              BaseNormOf(M, P)[1] * M.height_Axis_px[1] * axis_value[2]
                  = H(P) * M.height_Axis_px[2] * axis_value[1] * BaseNormOf(M, P)[2]

\* C10 (as stated): a click while the current mode names none of the five
\* points fails with InvalidNameError and leaves the registry unchanged.
C10_InvalidNameError ==
    [][ (last'.op = "on_canvas_click" /\ current_mode \notin Names) =>
            (last'.result = "InvalidNameError" /\ points' = points) ]_vars

\* C10 (amended): a click while the current mode names none of the five
\* points is ignored: the handler returns without raising or reporting an
\* error, and the registry, the mode and the image stay as they were.
C10_ClickIgnored ==
    [][ (last'.op = "on_canvas_click" /\ current_mode \notin Names) =>
            /\ last' = Ended("on_canvas_click", "return")
            /\ points' = points
            /\ UNCHANGED <<axis_value, current_mode, image, full_capture,
                           display_scale, roi_start, overlay>> ]_vars

\* C10 witness: a click in ROI mode was ignored on an annotated image.
C10_Witness ==
    /\ last = Ended("on_canvas_click", "return")
    /\ current_mode = RoiMode
    /\ image # None
    /\ \E n \in Names : Placed(n)

\* a click that places a point: an image is loaded and the mode names a point
Placement == last'.op = "on_canvas_click" /\ ~ClickIgnored

\* C11: a placement gives a coordinate to exactly one point, the one named
\* by the current mode, and leaves the coordinates of the other four points
\* and the calibration value unchanged.
C11_PlacementFrame ==
    [][ Placement =>
            /\ points'[current_mode] # None
            /\ \A n \in Names \ {current_mode} : points'[n] = points[n]
            /\ axis_value' = axis_value ]_vars

\* C11 witness: a placement has just moved one point of a registry in which
\* another point is placed, at a calibration value other than the default.
C11_Witness ==
    /\ last.op = "on_canvas_click" /\ last.result # "return"
    /\ Cardinality({n \in Names : Placed(n)}) >= 2
    /\ axis_value # Float(DefaultAxisValue)

\* C12: after every operation that changes the registry (a placement click,
\* Clear Marks, an image load, a ROI crop) the overlay panel is shown, drawn
\* from the metrics of the new registry contents.
C12_OverlayFresh ==
    [][ points' # points =>
            /\ overlay' # NoOverlay
            /\ Shown(overlay') = compute_metrics(points', axis_value') ]_vars

\* C14 (as stated): for any two defined nonzero heights hX, hY among A, B,
\* Control, X_as_pct_of_Y differs from Y_as_pct_of_X and delta_X_vs_Y_pct
\* differs from delta_Y_vs_X_pct.
C14_NonCommutative ==
    \A X \in Bars : \A Y \in Bars \ {X} :
        (X \in DefinedBars /\ Y \in DefinedBars /\ H(X) # 0 /\ H(Y) # 0) =>
            /\ Returned(M)
            /\ AsPctOf(M, X, Y) # AsPctOf(M, Y, X)
            /\ DeltaOf(M, X, Y) # DeltaOf(M, Y, X)

\* C14 (amended): for any two defined nonzero heights hX, hY among A, B,
\* Control, the swapped percentages differ, and the swapped deltas differ,
\* exactly when |hX| # |hY|; when hX = hY both percentages are 100 and both
\* deltas 0, and when hX = -hY both percentages are -100 and both deltas -200.
C14_NonCommutativeUnlessSameMagnitude ==
    LET m == M
    IN  \A X \in Bars : \A Y \in Bars \ {X} :
        (X \in DefinedBars /\ Y \in DefinedBars /\ H(X) # 0 /\ H(Y) # 0) =>
            /\ Returned(m)
            /\ AsPctOf(m, X, Y) # None /\ DeltaOf(m, X, Y) # None
            /\ (AsPctOf(m, X, Y) # AsPctOf(m, Y, X)) <=> (Abs(H(X)) # Abs(H(Y)))
            /\ (DeltaOf(m, X, Y) # DeltaOf(m, Y, X)) <=> (Abs(H(X)) # Abs(H(Y)))
            /\ H(X) = H(Y) =>
                  AsPctOf(m, X, Y) = Float(100) /\ DeltaOf(m, X, Y) = Float(0)
            /\ H(X) = -H(Y) =>
                  AsPctOf(m, X, Y) = Float(-100) /\ DeltaOf(m, X, Y) = Float(-200)

\* C14 witness: after a change of the calibration value a resize has drawn
\* the metrics of a registry in which A and B have nonzero heights of
\* different magnitude and opposite sign.
C14_Witness ==
    /\ Placed("Baseline") /\ Placed("A") /\ Placed("B")
    /\ H("A") = 2 /\ H("B") = -1
    /\ current_mode = "Axis"
    /\ overlay = Drawn(points, axis_value)
    /\ last = Ended("on_resize", "done")

\* C15: after any sequence of operations every placed point lies inside the
\* current working image (0 <= x <= width-1 and 0 <= y <= height-1), and no
\* point is placed while no image is loaded.
C15_PointsInsideImage ==
    \A n \in Names :
        Placed(n) =>
            /\ image # None
            /\ 0 <= points[n][1] /\ points[n][1] <= image[1] - 1
            /\ 0 <= points[n][2] /\ points[n][2] <= image[2] - 1

\* C16: each entry into a point-setting mode yields at most one placement:
\* a placement resets the mode to None, a click while the mode is None
\* (after a placement, or after set_mode(None) cancelled) changes no point
\* and leaves the mode None, and only set_mode and set_axis_tick take the
\* mode from None to a point's name.
C16_OnePlacementPerEntry ==
    [][ /\ Placement => current_mode' = NoMode
        /\ (last'.op = "on_canvas_click" /\ current_mode = NoMode) =>
               (points' = points /\ current_mode' = NoMode)
        /\ (last'.op = "set_mode" /\ current_mode' \notin Names) =>
               (points' = points /\ current_mode' = NoMode)
        /\ (current_mode \notin Names /\ current_mode' \in Names) =>
               last'.op \in {"set_mode", "set_axis_tick"} ]_vars

\* C16 witness: with an image loaded and a point placed, a further click
\* while the mode is None has been ignored.
C16_Witness ==
    /\ last = Ended("on_canvas_click", "return")
    /\ current_mode = NoMode
    /\ image # None
    /\ \E n \in Names : Placed(n)

\* the ROI drag that has just ended was rejected ("ROI too small; cancelled."
\* or "ROI invalid; cancelled.")
RoiRejected == last'.op = "on_roi_release" /\ last'.result \in {"too small", "invalid"}
\* the ROI drag that has just ended was accepted
RoiAccepted == last'.op = "on_roi_release" /\ last'.result \notin {"too small", "invalid"}

\* C17: a rejected ROI drag leaves the working image and all five point
\* coordinates unchanged and exits ROI mode; a release replaces the image
\* and clears the points only when the drag is accepted, and then it exits
\* ROI mode too.
C17_RejectedRoiFrame ==
    [][ /\ RoiRejected =>
               /\ image' = image
               /\ points' = points
               /\ current_mode = RoiMode /\ current_mode' = NoMode
        /\ RoiAccepted =>
               /\ image' # image
               /\ points' = AllNone
               /\ current_mode = RoiMode /\ current_mode' = NoMode ]_vars

\* C17 witness: a ROI drag on an annotated image has been rejected as empty
\* after mapping to image space.
C17_Witness ==
    /\ last = Ended("on_roi_release", "invalid")
    /\ current_mode = NoMode
    /\ image # None
    /\ \E n \in Names : Placed(n)

====
